---- MODULE Spec2Model ----
(***************************************************************************)
(* Model of src/imp.py: the steel-defect Streamlit script.                 *)
(*                                                                         *)
(* The script is executed top to bottom once per interaction (a "run").    *)
(* A run first calls download_model_from_github (line 28); when that call  *)
(* raises, the run stops there.  Otherwise the run reaches the upload      *)
(* block (lines 103-142).  The only state that survives a run is the file  *)
(* at the target path.                                                     *)
(*                                                                         *)
(* Strings that the code transforms (defect labels, table keys) are        *)
(* sequences of one-character strings, so that strip / replace /           *)
(* capitalize are computed character by character.  Confidence scores are  *)
(* integers in hundredths.                                                 *)
(***************************************************************************)
EXTENDS Integers, Sequences, FiniteSets, TLC

----------------------------------------------------------------------------
(* Bounds of the model *)

\* longest detection list an inference call returns
MaxDets == 2
\* longest generated label in the normalisation specification
MaxLabelLen == 3

----------------------------------------------------------------------------
(* Characters and Python's str methods used at line 128 *)

CasePairs ==
  { <<"a","A">>, <<"b","B">>, <<"c","C">>, <<"d","D">>, <<"e","E">>,
    <<"f","F">>, <<"g","G">>, <<"h","H">>, <<"i","I">>, <<"j","J">>,
    <<"k","K">>, <<"l","L">>, <<"m","M">>, <<"n","N">>, <<"o","O">>,
    <<"p","P">>, <<"q","Q">>, <<"r","R">>, <<"s","S">>, <<"t","T">>,
    <<"u","U">>, <<"v","V">>, <<"w","W">>, <<"x","X">>, <<"y","Y">>,
    <<"z","Z">> }

\* the characters str.strip() removes (ASCII whitespace of the model)
Whitespace == { " ", "\t", "\n" }

\* str.upper() and str.lower() on one character
UpperOf == [c \in { p[1] : p \in CasePairs } |->
              (CHOOSE p \in CasePairs : p[1] = c)[2]]
LowerOf == [c \in { p[2] : p \in CasePairs } |->
              (CHOOSE p \in CasePairs : p[2] = c)[1]]

Upper(c) == IF c \in DOMAIN UpperOf THEN UpperOf[c] ELSE c

Lower(c) == IF c \in DOMAIN LowerOf THEN LowerOf[c] ELSE c

RECURSIVE lstrip(_)
lstrip(s) == IF s # <<>> /\ Head(s) \in Whitespace THEN lstrip(Tail(s)) ELSE s

RECURSIVE rstrip(_)
rstrip(s) == IF s # <<>> /\ s[Len(s)] \in Whitespace
             THEN rstrip(SubSeq(s, 1, Len(s) - 1))
             ELSE s

\* str.strip()
strip(s) == rstrip(lstrip(s))

\* str.replace(" ", "_")
replace_space(s) == [i \in 1..Len(s) |-> IF s[i] = " " THEN "_" ELSE s[i]]

\* a capitalize that transforms the first character only
capitalize_first_only(s) ==
  IF s = <<>> THEN s
  ELSE [i \in 1..Len(s) |-> IF i = 1 THEN Upper(s[i]) ELSE s[i]]

\* str.capitalize(): first character upper-cased, all the others lower-cased
capitalize(s) ==
  IF s = <<>> THEN s
  ELSE [i \in 1..Len(s) |-> IF i = 1 THEN Upper(s[i]) ELSE Lower(s[i])]

\* class_key = defect.strip().replace(" ", "_").capitalize()
class_key(defect) == capitalize(replace_space(strip(defect)))

----------------------------------------------------------------------------
(* The knowledge table, lines 75-100 *)

K_Crazing == <<"C", "r", "a", "z", "i", "n", "g">>
K_Patches == <<"P", "a", "t", "c", "h", "e", "s">>
K_Pitted_surface ==
  <<"P", "i", "t", "t", "e", "d", "_", "s", "u", "r", "f", "a", "c", "e">>
K_Rolled_in_scale ==
  <<"R", "o", "l", "l", "e", "d", "-", "i", "n", "_", "s", "c", "a", "l", "e">>
K_Scratches == <<"S", "c", "r", "a", "t", "c", "h", "e", "s">>
K_Inclusion == <<"I", "n", "c", "l", "u", "s", "i", "o", "n">>

KnowledgeKeys ==
  { K_Crazing, K_Patches, K_Pitted_surface, K_Rolled_in_scale,
    K_Scratches, K_Inclusion }

defect_knowledge ==
  [k \in KnowledgeKeys |->
    CASE k = K_Crazing ->
           [Cause |-> "Tensile stress beyond material limit due to cooling issues or high rolling speed.",
            Prevention |-> "Optimize rolling speed and ensure uniform cooling."]
      [] k = K_Patches ->
           [Cause |-> "Local oxidation or improper cleaning before rolling.",
            Prevention |-> "Maintain surface cleanliness and control mill scale formation."]
      [] k = K_Pitted_surface ->
           [Cause |-> "Localized corrosion or trapped air bubbles during rolling.",
            Prevention |-> "Improve descaling processes and surface inspection."]
      [] k = K_Rolled_in_scale ->
           [Cause |-> "Oxide scales not removed properly before rolling.",
            Prevention |-> "Enhance descaling efficiency and pre-cleaning."]
      [] k = K_Scratches ->
           [Cause |-> "Abrasive particles or improper handling.",
            Prevention |-> "Maintain clean rollers and handling equipment."]
      [] k = K_Inclusion ->
           [Cause |-> "Non-metallic particles embedded during manufacturing.",
            Prevention |-> "Use high-quality raw materials and controlled processing."]]

----------------------------------------------------------------------------
(* Model provisioning, lines 13-28 *)

\* the size floor of line 23
SizeFloor == 1000000
\* the only status line 17 accepts
HTTP_OK == 200

\* the ValueError messages of lines 18 and 24
NoError == "none"
DownloadFailure == "Failed to download model from GitHub."
InvalidArtifact == "Downloaded file is too small. Likely invalid."

\* what requests.get may return: a status and a body of some length
Statuses == { 200, 404, 500 }
Sizes == { SizeFloor - 1, SizeFloor }
Responses == [status : Statuses, size : Sizes]
NoResponse == [status |-> 0, size |-> 0]

\* the target path: no file, or a file of some size
Absent == [exists |-> FALSE, size |-> 0]
FileOf(n) == [exists |-> TRUE, size |-> n]

\* the detector: YOLO(output_path) is built from the file it is handed
NoModel == [loaded |-> FALSE, weights |-> 0]
YOLO(f) == [loaded |-> TRUE, weights |-> f.size]

\* a download that writes the body before it looks at the status
download_write_first(f, resp) ==
  IF ~f.exists
  THEN IF resp.status # HTTP_OK
       THEN [file |-> FileOf(resp.size), fetches |-> 1, writes |-> 1,
             model |-> NoModel, error |-> DownloadFailure]
       ELSE IF resp.size < SizeFloor
            THEN [file |-> FileOf(resp.size), fetches |-> 1, writes |-> 1,
                  model |-> NoModel, error |-> InvalidArtifact]
            ELSE [file |-> FileOf(resp.size), fetches |-> 1, writes |-> 1,
                  model |-> YOLO(FileOf(resp.size)), error |-> NoError]
  ELSE [file |-> f, fetches |-> 0, writes |-> 0,
        model |-> YOLO(f), error |-> NoError]

\* a download that applies the size floor to a cached file too
download_revalidate(f, resp) ==
  IF ~f.exists
  THEN IF resp.status # HTTP_OK
       THEN [file |-> f, fetches |-> 1, writes |-> 0,
             model |-> NoModel, error |-> DownloadFailure]
       ELSE IF resp.size < SizeFloor
            THEN [file |-> FileOf(resp.size), fetches |-> 1, writes |-> 1,
                  model |-> NoModel, error |-> InvalidArtifact]
            ELSE [file |-> FileOf(resp.size), fetches |-> 1, writes |-> 1,
                  model |-> YOLO(FileOf(resp.size)), error |-> NoError]
  ELSE IF f.size < SizeFloor
       THEN [file |-> f, fetches |-> 0, writes |-> 0,
             model |-> NoModel, error |-> InvalidArtifact]
       ELSE [file |-> f, fetches |-> 0, writes |-> 0,
             model |-> YOLO(f), error |-> NoError]

\* The body of download_model_from_github on target file f when the fetch
\* (if one is made) returns resp: the file afterwards, the number of fetches
\* and writes, the detector returned and the error raised.
download_outcome(f, resp) ==
  IF ~f.exists                                          \* line 14
  THEN IF resp.status # HTTP_OK                         \* lines 16-18
       THEN [file |-> f, fetches |-> 1, writes |-> 0,
             model |-> NoModel, error |-> DownloadFailure]
       ELSE IF resp.size < SizeFloor                    \* lines 19-24
            THEN [file |-> FileOf(resp.size), fetches |-> 1, writes |-> 1,
                  model |-> NoModel, error |-> InvalidArtifact]
            ELSE [file |-> FileOf(resp.size), fetches |-> 1, writes |-> 1,
                  model |-> YOLO(FileOf(resp.size)), error |-> NoError]
  ELSE [file |-> f, fetches |-> 0, writes |-> 0,        \* line 25
        model |-> YOLO(f), error |-> NoError]

----------------------------------------------------------------------------
(* Inference results and aggregation, lines 109-117 *)

L_crazing == <<"c", "r", "a", "z", "i", "n", "g">>
L_PittedSurface ==
  <<"P", "i", "t", "t", "e", "d", " ", "S", "u", "r", "f", "a", "c", "e">>
L_RolledInScale ==
  <<"R", "o", "l", "l", "e", "d", "-", "I", "n", "_", "S", "c", "a", "l", "e">>
L_Unknown ==
  <<"U", "n", "k", "n", "o", "w", "n", "_", "d", "e", "f", "e", "c", "t">>
L_patchesPadded == <<" ", "p", "a", "t", "c", "h", "e", "s", " ">>

\* confidence scores in hundredths, class indices of the detector
Scores == { 40, 91 }
ClassIds == { 0, 1 }

\* one row of results[0].boxes.data: the four coordinates are discarded by
\* line 115, so a box is its score and class index
Boxes == [score : Scores, cls : ClassIds]

RECURSIVE SeqsUpTo(_, _)
SeqsUpTo(S, n) ==
  IF n = 0 THEN { <<>> }
  ELSE LET shorter == SeqsUpTo(S, n - 1)
       IN  shorter \cup { Append(s, x) : s \in shorter, x \in S }

DetLists == SeqsUpTo(Boxes, MaxDets)

\* results[0].names: the per-call table from class index to label
NameTables ==
  { [c \in ClassIds |-> IF c = 0 THEN K_Crazing ELSE K_Patches],
    [c \in ClassIds |-> IF c = 0 THEN L_PittedSurface ELSE L_Unknown],
    [c \in ClassIds |-> IF c = 0 THEN L_patchesPadded ELSE L_crazing],
    [c \in ClassIds |-> K_Crazing] }

\* a report that starts from whatever the previous one held
StaleReport(old) == old

\* grouped_defects = defaultdict(list), line 113
FreshReport(old) == <<>>

\* an append that drops a score equal to one the label already has
AppendScoreDedup(gd, label, score) ==
  IF \E i \in 1..Len(gd) : gd[i].label = label
  THEN LET i == CHOOSE j \in 1..Len(gd) : gd[j].label = label
       IN  IF \E k \in 1..Len(gd[i].scores) : gd[i].scores[k] = score
           THEN gd
           ELSE [gd EXCEPT ![i].scores = Append(@, score)]
  ELSE Append(gd, [label |-> label, scores |-> <<score>>])

\* grouped_defects[class_name].append(score), line 117: the dict keeps its
\* keys in insertion order, a missing key is created at the end
AppendScore(gd, label, score) ==
  IF \E i \in 1..Len(gd) : gd[i].label = label
  THEN LET i == CHOOSE j \in 1..Len(gd) : gd[j].label = label
       IN  [gd EXCEPT ![i].scores = Append(@, score)]
  ELSE Append(gd, [label |-> label, scores |-> <<score>>])

\* the loop of lines 114-117 over the rows in the order inference gave them
RECURSIVE AggLoop(_, _, _)
AggLoop(gd, boxes, names) ==
  IF boxes = <<>> THEN gd
  ELSE AggLoop(AppendScore(gd, names[Head(boxes).cls], Head(boxes).score),
               Tail(boxes), names)

----------------------------------------------------------------------------
(* Rendering, lines 120-140 *)

ImageItem == [kind |-> "image", text |-> "Detected Defects"]
SubheaderItem ==
  [kind |-> "subheader", text |-> "Detected Defects & Technical Details"]
LabelItem(defect) == [kind |-> "label", defect |-> defect]
ConfItem(idx, conf) == [kind |-> "confidence", idx |-> idx, conf |-> conf]
CauseItem(text) == [kind |-> "cause", text |-> text]
PreventionItem(text) == [kind |-> "prevention", text |-> text]
WarningItem ==
  [kind |-> "warning", text |-> "No information found for this defect."]
ErrorItem == [kind |-> "error", text |-> "Error processing image"]
InfoItem ==
  [kind |-> "info",
   text |-> "Please upload a valid image file (jpg, jpeg, png, bmp, tiff, webp)."]

\* lines 128-137 for one entry of the report: the header, one line per
\* score, then the table's texts or the warning
RenderDefect(entry) ==
  LET key == class_key(entry.label)
  IN  <<LabelItem(entry.label)>>
      \o [i \in 1..Len(entry.scores) |-> ConfItem(i, entry.scores[i])]
      \o (IF key \in DOMAIN defect_knowledge
          THEN <<CauseItem(defect_knowledge[key].Cause),
                 PreventionItem(defect_knowledge[key].Prevention)>>
          ELSE <<WarningItem>>)

\* a loop that ends at the first label the table does not know
RECURSIVE RenderDefectsStopAtMiss(_)
RenderDefectsStopAtMiss(gd) ==
  IF gd = <<>> THEN <<>>
  ELSE IF class_key(Head(gd).label) \in DOMAIN defect_knowledge
       THEN RenderDefect(Head(gd)) \o RenderDefectsStopAtMiss(Tail(gd))
       ELSE RenderDefect(Head(gd))

\* the loop of line 127 over the report in insertion order
RECURSIVE RenderDefects(_)
RenderDefects(gd) ==
  IF gd = <<>> THEN <<>>
  ELSE RenderDefect(Head(gd)) \o RenderDefects(Tail(gd))

\* a page that says so when the report is empty
RenderResultsNoDefectsMsg(gd) ==
  IF gd = <<>>
  THEN <<ImageItem, SubheaderItem,
         [kind |-> "info", text |-> "No defects detected."]>>
  ELSE <<ImageItem, SubheaderItem>> \o RenderDefects(gd)

\* lines 120-137: the annotated image, the subheader, then the report
RenderResults(gd) == <<ImageItem, SubheaderItem>> \o RenderDefects(gd)

\* what the page holds when the st.* call for section `at` raises: nothing
\* for the image (at = 0), else the image, the subheader and the sections
\* before `at`
RenderBefore(gd, at) ==
  IF at = 0 THEN <<>> ELSE RenderResults(SubSeq(gd, 1, at - 1))

\* an except clause that lets the exception through
ExceptReraise(out) == [ui |-> out, pc |-> "crashed"]

\* lines 139-140: the exception is caught, st.error is shown, the run ends
ExceptOutcome(out) == [ui |-> Append(out, ErrorItem), pc |-> "end"]

----------------------------------------------------------------------------
(* Uploads *)

\* Where the try block raises: nowhere, in Image.open / np.array (decode),
\* in model(image_np) (infer), in results[0].plot() (plot), in iteration
\* `at` of the loop of line 114 (agg), or in the st.* call that starts
\* section `at` of the page (render).
Faults == { "none", "decode", "infer", "plot", "agg", "render" }

\* the labels the loop of line 114 would produce for dets under names
ReportOf(dets, names) == AggLoop(<<>>, dets, names)

\* An upload is the image the user submitted, given by what happens when it
\* is processed: the fault it triggers (if any) and the rows and name table
\* inference returns for it.
Uploads ==
  { [fault |-> f, at |-> 0, dets |-> <<>>, names |-> n] :
      f \in { "decode", "infer", "plot" },
      n \in { CHOOSE t \in NameTables : TRUE } }
  \cup { [fault |-> "none", at |-> 0, dets |-> d, names |-> n] :
           d \in DetLists, n \in NameTables }
  \cup UNION { { [fault |-> "agg", at |-> k, dets |-> d, names |-> n] :
                   k \in 1..Len(d) } : d \in DetLists, n \in NameTables }
  \cup UNION { { [fault |-> "render", at |-> j, dets |-> d, names |-> n] :
                   j \in 0..Len(ReportOf(d, n)) } :
               d \in DetLists, n \in NameTables }

----------------------------------------------------------------------------
(* State *)

VARIABLES
  file,             \* the file at the target path "best.pt"
  fileBefore,       \* the file when the current run called line 28
  response,         \* the response of this run's fetch, NoResponse if none
  fetches,          \* requests.get calls made by this run
  writes,           \* writes of the target file made by this run
  model,            \* the detector of this run, NoModel if none
  error,            \* the error line 28 raised in this run, NoError if none
  pc,               \* "start", "loaded", "halted", "end", "crashed"
  uploaded_file,    \* <<>> for None, else <<the upload>>
  usedModel,        \* the detector line 109 was called on in this run
  grouped_defects,  \* the report: a sequence of [label, scores] in key order
  ui,               \* what this run rendered, in order
  prevFailed,       \* the previous run ended in the handler of line 139
  hadReport,        \* line 113 of this run replaced a non-empty report
  defect,           \* line 127: the label being looked up
  key,              \* line 128: class_key of that label
  shown             \* lines 133-137: "entry", "warning", "pending" before

vars == <<file, fileBefore, response, fetches, writes, model, error, pc,
          uploaded_file, usedModel, grouped_defects, ui, prevFailed,
          hadReport, defect, key, shown>>

lookupVars == <<defect, key, shown>>

Files == { Absent } \cup { FileOf(n) : n \in Sizes }

Init ==
  /\ file \in Files
  /\ fileBefore = file
  /\ response = NoResponse
  /\ fetches = 0
  /\ writes = 0
  /\ model = NoModel
  /\ error = NoError
  /\ pc = "start"
  /\ uploaded_file = <<>>
  /\ usedModel = NoModel
  /\ grouped_defects = <<>>
  /\ ui = <<>>
  /\ prevFailed = FALSE
  /\ hadReport = FALSE
  /\ defect = <<>>
  /\ key = <<>>
  /\ shown = "pending"

\* the state a run starting with no file at the target path begins in
InitFresh == Init /\ file = Absent

----------------------------------------------------------------------------
(* Actions *)

\* A run starts and executes line 28.  The page of the previous run is
\* cleared and uploaded_file is not bound before line 72; the file on disk
\* is what the previous runs left.  The last report is kept until line 113
\* rebinds it, so that anything a run carried over from it would show.
download_model_from_github(resp) ==
  /\ pc \in { "start", "end", "halted" }
  /\ LET r == download_outcome(file, resp)
     IN  /\ fileBefore' = file
         /\ file' = r.file
         /\ fetches' = r.fetches
         /\ writes' = r.writes
         /\ response' = IF r.fetches > 0 THEN resp ELSE NoResponse
         /\ model' = r.model
         /\ error' = r.error
         /\ pc' = IF r.error = NoError THEN "loaded" ELSE "halted"
  /\ ui' = <<>>
  /\ uploaded_file' = <<>>
  /\ usedModel' = NoModel
  /\ prevFailed' = (pc = "end" /\ ui # <<>> /\ ui[Len(ui)] = ErrorItem)
  /\ hadReport' = FALSE
  /\ UNCHANGED <<grouped_defects, lookupVars>>

\* Lines 72 and 103-140 with an uploaded file.
ProcessUpload(up) ==
  /\ pc = "loaded"
  /\ uploaded_file' = <<up>>
  /\ usedModel' = IF up.fault = "decode" THEN NoModel ELSE model
  /\ LET reachedLoop == up.fault \notin { "decode", "infer", "plot" }
         consumed == IF up.fault = "agg"
                     THEN SubSeq(up.dets, 1, up.at - 1)
                     ELSE up.dets
         gd == IF reachedLoop
               THEN AggLoop(FreshReport(grouped_defects), consumed, up.names)
               ELSE grouped_defects
         out == CASE up.fault = "none" -> RenderResults(gd)
                  [] up.fault = "render" -> RenderBefore(gd, up.at)
                  [] OTHER -> <<>>
         fin == IF up.fault = "none"
                THEN [ui |-> out, pc |-> "end"]
                ELSE ExceptOutcome(out)
     IN  /\ grouped_defects' = gd
         /\ hadReport' = (reachedLoop /\ grouped_defects # <<>>)
         /\ ui' = fin.ui
         /\ pc' = fin.pc
  /\ UNCHANGED <<file, fileBefore, response, fetches, writes, model, error,
                 prevFailed, lookupVars>>

\* Lines 72 and 141-142 with no uploaded file.
NoUpload ==
  /\ pc = "loaded"
  /\ uploaded_file' = <<>>
  /\ ui' = <<InfoItem>>
  /\ pc' = "end"
  /\ UNCHANGED <<file, fileBefore, response, fetches, writes, model, error,
                 usedModel, grouped_defects, prevFailed, hadReport,
                 lookupVars>>

Next ==
  \/ \E resp \in Responses : download_model_from_github(resp)
  \/ \E up \in Uploads : ProcessUpload(up)
  \/ NoUpload

Spec == Init /\ [][Next]_vars

SpecFresh == InitFresh /\ [][Next]_vars

----------------------------------------------------------------------------
(* The key normalisation of line 128 on its own *)

\* characters of the generated labels
KeyAlphabet == { "p", "P", " ", "_", "\t" }

\* labels a name table may hold: the ones above, some more, and every
\* string over KeyAlphabet of at most MaxLabelLen characters
LabelSpace ==
  { K_Crazing, K_Patches, K_Pitted_surface, K_Rolled_in_scale, K_Scratches,
    K_Inclusion, L_crazing, L_PittedSurface, L_RolledInScale, L_Unknown,
    L_patchesPadded }
  \cup SeqsUpTo(KeyAlphabet, MaxLabelLen)

\* the upload block has reached the loop of line 127; nothing else moves
InitKey ==
  /\ file = FileOf(SizeFloor)
  /\ fileBefore = file
  /\ response = NoResponse
  /\ fetches = 0
  /\ writes = 0
  /\ model = YOLO(file)
  /\ error = NoError
  /\ pc = "lookup"
  /\ uploaded_file = <<>>
  /\ usedModel = model
  /\ grouped_defects = <<>>
  /\ ui = <<>>
  /\ prevFailed = FALSE
  /\ hadReport = FALSE
  /\ defect = <<>>
  /\ key = <<>>
  /\ shown = "pending"

\* line 127 reaches a label
PickLabel(d) ==
  /\ pc = "lookup"
  /\ shown # "pending" \/ defect = <<>>
  /\ defect' = d
  /\ key' = <<>>
  /\ shown' = "pending"
  /\ UNCHANGED <<file, fileBefore, response, fetches, writes, model, error,
                 pc, uploaded_file, usedModel, grouped_defects, ui,
                 prevFailed, hadReport>>

\* lines 128 and 133-137 for that label
KnowledgeLookup ==
  /\ pc = "lookup"
  /\ shown = "pending"
  /\ key' = class_key(defect)
  /\ shown' = IF class_key(defect) \in DOMAIN defect_knowledge
              THEN "entry" ELSE "warning"
  /\ UNCHANGED <<file, fileBefore, response, fetches, writes, model, error,
                 pc, uploaded_file, usedModel, grouped_defects, ui,
                 prevFailed, hadReport, defect>>

NextKey ==
  \/ \E d \in LabelSpace : PickLabel(d)
  \/ KnowledgeLookup

SpecKey == InitKey /\ [][NextKey]_vars

----------------------------------------------------------------------------
(* Claims about model provisioning *)

\* the current run has executed line 28
Called == pc \in { "loaded", "halted", "end" }

\* line 28 found no file and the fetch answered 200 with an undersized body
UndersizedDownload ==
  /\ Called
  /\ ~fileBefore.exists
  /\ fetches = 1
  /\ response.status = HTTP_OK
  /\ response.size < SizeFloor

\* C1: with no file at the target path and a 200 response of fewer than
\* 1,000,000 bytes, the call fails with Invalid Artifact, returns no
\* detector, and no file exists at the target path afterwards.
C1_NoFileAfterUndersized ==
  UndersizedDownload =>
    /\ error = InvalidArtifact
    /\ model = NoModel
    /\ ~file.exists

\* line 28 found no file and the fetch answered with a status other than 200
FailedFetch ==
  /\ Called
  /\ ~fileBefore.exists
  /\ fetches = 1
  /\ response.status # HTTP_OK

\* C2: with no file at the target path and a response whose status is not
\* 200, the call fails with Download Failure, builds no detector, and
\* leaves no file, not even a partial one, at the target path.
C2_FailedFetchLeavesNothing ==
  FailedFetch =>
    /\ error = DownloadFailure
    /\ pc = "halted"
    /\ model = NoModel
    /\ writes = 0
    /\ ~file.exists

C2_Witness ==
  /\ FailedFetch
  /\ response.status = 404
  /\ response.size >= SizeFloor
  /\ pc = "halted"

\* C3: with a file already at the target path, the call makes no network
\* fetch, neither writes nor deletes the file, applies no size floor (a file
\* of any size is accepted) and returns a detector built from that file.
C3_CachedFileTrusted ==
  (Called /\ fileBefore.exists) =>
    /\ fetches = 0
    /\ writes = 0
    /\ file = fileBefore
    /\ error = NoError
    /\ model.loaded
    /\ model.weights = fileBefore.size

C3_Witness ==
  /\ pc = "loaded"
  /\ fileBefore.exists
  /\ fileBefore.size < SizeFloor
  /\ model.loaded
  /\ fetches = 0

\* C10: over runs that start with no file at the target path, a detector is
\* only ever built from a file of at least 1,000,000 bytes, and no inference
\* is performed in a run whose provisioning failed.
C10_OnlyValidatedArtifactsLoaded ==
  /\ model.loaded => model.weights >= SizeFloor
  /\ usedModel.loaded => error = NoError

----------------------------------------------------------------------------
(* Claims about aggregation *)

\* this run processed an upload
Processed == pc = "end" /\ uploaded_file # <<>>

TheUpload == uploaded_file[1]

\* the label line 116 resolves for a row
LabelOfBox(up, d) == up.names[d.cls]

\* the scores of the rows of dets that carry the label, in row order
ScoresOfLabel(up, dets, label) ==
  LET rows == SelectSeq(dets, LAMBDA d : LabelOfBox(up, d) = label)
  IN  [i \in 1..Len(rows) |-> rows[i].score]

\* the index of the first row of dets that carries the label
FirstRow(up, dets, label) ==
  CHOOSE i \in 1..Len(dets) :
    /\ LabelOfBox(up, dets[i]) = label
    /\ \A j \in 1..(i - 1) : LabelOfBox(up, dets[j]) # label

RECURSIVE TotalScores(_)
TotalScores(gd) ==
  IF gd = <<>> THEN 0 ELSE Len(Head(gd).scores) + TotalScores(Tail(gd))

\* the loop of line 114 ran to its end in this run
AggregationComplete == Processed /\ TheUpload.fault \in { "none", "render" }

Consumed ==
  IF TheUpload.fault = "agg"
  THEN SubSeq(TheUpload.dets, 1, TheUpload.at - 1)
  ELSE TheUpload.dets

\* line 113 was executed in this run
ReportRebuilt ==
  Processed /\ TheUpload.fault \notin { "decode", "infer", "plot" }

\* C8: the report built for an upload depends only on that upload: its keys
\* are labels of the current detections, it holds no score of an earlier
\* upload (also after one that failed midway), and aggregating the same
\* detections again yields the same report.
C8_ReportOfCurrentUploadOnly ==
  ReportRebuilt =>
    LET up == TheUpload
        gd == grouped_defects
    IN  /\ { gd[e].label : e \in 1..Len(gd) }
             \subseteq { LabelOfBox(up, Consumed[i]) : i \in 1..Len(Consumed) }
        /\ \A e \in 1..Len(gd) :
             Len(gd[e].scores)
               = Cardinality({ i \in 1..Len(Consumed) :
                                 LabelOfBox(up, Consumed[i]) = gd[e].label })
        /\ TotalScores(gd) = Len(Consumed)
        /\ AggLoop(FreshReport(gd), Consumed, up.names) = gd

\* a report of one score built where an earlier, non-empty report stood and
\* the previous upload had failed
C8_Witness ==
  /\ ReportRebuilt
  /\ prevFailed
  /\ hadReport
  /\ TheUpload.fault = "none"
  /\ Len(TheUpload.dets) = 1
  /\ TotalScores(grouped_defects) = 1

----------------------------------------------------------------------------
(* Claims about rendering and error handling *)

\* the upload was processed without any exception
CleanRun == Processed /\ TheUpload.fault = "none"

Kinds(k) == { p \in 1..Len(ui) : ui[p].kind = k }

NoErrorShown == Kinds("error") = {}

\* C5 as stated: zero detections give an empty report, no error, and a
\* message telling the user that there are no defects.
C5_NoDefectsMessageShown ==
  (CleanRun /\ TheUpload.dets = <<>>) =>
    /\ grouped_defects = <<>>
    /\ NoErrorShown
    /\ \E p \in 1..Len(ui) : ui[p].kind \notin { "image", "subheader" }

\* C5 as amended: zero detections give an empty report, no error, and a page
\* of the annotated image and the section heading alone, with no entry and
\* no message below it.
C5_EmptyReportShowsHeadingOnly ==
  (CleanRun /\ TheUpload.dets = <<>>) =>
    /\ grouped_defects = <<>>
    /\ NoErrorShown
    /\ ui = <<ImageItem, SubheaderItem>>

C5_Witness ==
  /\ CleanRun
  /\ TheUpload.dets = <<>>
  /\ usedModel.loaded
  /\ Len(ui) = 2

\* the position in ui of the header of the j-th label
HeaderPos(j) ==
  CHOOSE p \in Kinds("label") :
    Cardinality({ q \in Kinds("label") : q <= p }) = j

\* the position of the last item of the j-th label's section
SectionEnd(j) ==
  IF j < Cardinality(Kinds("label")) THEN HeaderPos(j + 1) - 1 ELSE Len(ui)

\* C6: every label of the report is rendered; a label whose normalised key
\* is in the table is followed by exactly that key's Cause and Prevention,
\* any other label by the warning, without an error and without ending the
\* loop.
C6_EveryLabelGetsEntryOrWarning ==
  CleanRun =>
    LET gd == grouped_defects
    IN  /\ NoErrorShown
        /\ Cardinality(Kinds("label")) = Len(gd)
        /\ \A j \in 1..Len(gd) :
             LET h == HeaderPos(j)
                 e == SectionEnd(j)
                 k == class_key(gd[j].label)
                 inSection(kind) == { p \in Kinds(kind) : h < p /\ p <= e }
             IN  /\ ui[h] = LabelItem(gd[j].label)
                 /\ IF k \in KnowledgeKeys
                    THEN /\ inSection("cause") = { e - 1 }
                         /\ inSection("prevention") = { e }
                         /\ inSection("warning") = {}
                         /\ ui[e - 1].text = defect_knowledge[k].Cause
                         /\ ui[e].text = defect_knowledge[k].Prevention
                    ELSE /\ inSection("warning") = { e }
                         /\ inSection("cause") = {}
                         /\ inSection("prevention") = {}

\* an unknown label first, then a label whose key is in the table
C6_Witness ==
  /\ CleanRun
  /\ Len(grouped_defects) = 2
  /\ grouped_defects[1].label = L_Unknown
  /\ grouped_defects[2].label = L_PittedSurface
  /\ ui[Len(ui)] = PreventionItem(defect_knowledge[K_Pitted_surface].Prevention)

\* C7: an exception while decoding, inferring, aggregating or rendering is
\* caught and shown as an error message and the process goes on: another
\* run can start, and a later valid upload is processed normally by the
\* detector built from the same file.
C7_UploadErrorsAreCaught ==
  /\ pc # "crashed"
  /\ (Processed /\ TheUpload.fault # "none") =>
       /\ Kinds("error") = { Len(ui) }
       /\ ENABLED (\E resp \in Responses : download_model_from_github(resp))
  /\ CleanRun =>
       /\ NoErrorShown
       /\ ui # <<>> /\ ui[1] = ImageItem
       /\ Cardinality(Kinds("label")) = Len(grouped_defects)
       /\ Cardinality(Kinds("confidence")) = Len(TheUpload.dets)
       /\ usedModel = model
       /\ model.loaded
       /\ file.exists /\ model.weights = file.size

\* a valid upload processed in the run after one whose upload failed
C7_Witness ==
  /\ CleanRun
  /\ prevFailed
  /\ TheUpload.dets # <<>>
  /\ usedModel.loaded

----------------------------------------------------------------------------
(* Claims about the key normalisation *)

LookupDone == pc = "lookup" /\ shown # "pending"

\* the positions of defect that hold a character strip() keeps
Solid == { i \in 1..Len(defect) : defect[i] \notin Whitespace }

Lo == CHOOSE i \in Solid : \A j \in Solid : i <= j
Hi == CHOOSE i \in Solid : \A j \in Solid : j <= i

\* the character of the trimmed label at position i, spaces replaced
Trimmed(i) ==
  LET c == defect[Lo + i - 1] IN IF c = " " THEN "_" ELSE c

\* C9 as stated: the key is the trimmed label with spaces replaced and only
\* its first character transformed, every later character keeping its case,
\* so 'Pitted Surface' and 'Rolled-In_Scale' do not match the table.
C9_LaterCharactersKeepCase ==
  LookupDone =>
    /\ Solid = {} => key = <<>>
    /\ Solid # {} =>
         /\ Len(key) = Hi - Lo + 1
         /\ key[1] = Upper(Trimmed(1))
         /\ \A i \in 2..Len(key) : key[i] = Trimmed(i)
    /\ defect \in { L_PittedSurface, L_RolledInScale } => shown = "warning"

\* C9 as amended: the key is the trimmed label with spaces replaced, its
\* first character upper-cased and every later character lower-cased, so
\* 'Pitted Surface' and 'Rolled-In_Scale' do match the table keys
\* 'Pitted_surface' and 'Rolled-in_scale'.
C9_LaterCharactersLowered ==
  LookupDone =>
    /\ Solid = {} => key = <<>>
    /\ Solid # {} =>
         /\ Len(key) = Hi - Lo + 1
         /\ key[1] = Upper(Trimmed(1))
         /\ \A i \in 2..Len(key) : key[i] = Lower(Trimmed(i))
    /\ defect = L_PittedSurface => key = K_Pitted_surface /\ shown = "entry"
    /\ defect = L_RolledInScale => key = K_Rolled_in_scale /\ shown = "entry"
    /\ shown = "entry" <=> key \in KnowledgeKeys

C9_Witness ==
  /\ LookupDone
  /\ defect = L_PittedSurface
  /\ key = K_Pitted_surface
  /\ shown = "entry"

====
